---- MODULE Spec2Model ----
(***************************************************************************)
(* Matching of analytical surfaces (ETABS) to architectural walls (Revit). *)
(*                                                                         *)
(* The model follows SurfaceWallMatcher in                                 *)
(* src/computations/surface_to_wall_matcher.py: the z pre-filter, the      *)
(* per-surface candidate loop and the mapping built by                     *)
(* find_matching_partners, and analyze_dict in                             *)
(* src/utils/results_analyzer.py.                                          *)
(*                                                                         *)
(* Geometry is abstracted as follows.  A bounding box is kept as its z     *)
(* interval <<min_z, max_z>>, the only part the code reads.  The rows of   *)
(* the point array of a surface are numbered 1..NumPoints (corners first,  *)
(* then interior points).  trimesh's point-in-mesh test is an external     *)
(* library: "contains" records, for every surface and wall, the set of     *)
(* rows the test answers True for; it is chosen freely in Init and never   *)
(* changes, so the test is deterministic but otherwise unconstrained.      *)
(***************************************************************************)
EXTENDS Integers, Sequences, FiniteSets, TLC

\* Bounds of the model.
MaxSurfaces == 2
MaxWalls == 2
MaxStorey == 2
MaxRuns == 2

\* Program constants.
NumCorners == 4
NumInterior == 1
Dim == 3

VARIABLES
  surfaces,           \* list[AnalyticalSurface], the first argument
  walls,              \* list[RevitWall], the second argument
  contains,           \* contains[s][w]: rows of surface s inside wall w's buffered mesh
  pc,                 \* where the call of find_matching_partners stands
  si,                 \* index of the surface of the current iteration
  candidate_walls,    \* result of spatial_proximity_filter for that surface
  wi,                 \* index of the candidate of the current loop iteration
  all_points,         \* rows of np.vstack((surface.points, surface.interior_points))
  remaining_points,   \* rows of all_points[~points_contained]
  matching_wall_ids,  \* the list is_surface_coordinated builds
  queries,            \* the calls of buffered_mesh.contains made for this surface
  matches,            \* the dict find_matching_partners builds
  returned,           \* the dicts returned so far, one per call
  d,                  \* the argument of analyze_dict
  results,            \* the value analyze_dict returned
  elements,           \* the elements of the ETABS commit's "@Model"
  units,              \* EtabsModelProcessor.units
  application_ids,    \* the set extract_analytical_surfaces builds
  attached,           \* the attach_*_to_objects calls of automate_function
  marks               \* the mark_run_failed / mark_run_success calls

vars == <<surfaces, walls, contains, pc, si, candidate_walls, wi, all_points,
          remaining_points, matching_wall_ids, queries, matches, returned, d, results,
          elements, units, application_ids, attached, marks>>

\* What the matcher and analyze_dict never touch.
context == <<elements, units, application_ids, attached, marks>>

----------------------------------------------------------------------------
\* Inputs.

\* The z extent of an object standing on storey k: <<min_z, max_z>>.
ZIntervals == {<<k, k + 1>> : k \in 0..MaxStorey}

Corners == 1..NumCorners

InteriorRows == (NumCorners + 1)..(NumCorners + NumInterior)

NumPoints == NumCorners + NumInterior

None == [set |-> FALSE, rows |-> {}]

\* The matcher reads the point rows only through boolean masks, so one
\* representative of every relabelling of the rows is enough: row p lies in
\* the walls whose bit is set in code[p], and the codes do not decrease.
Bit(code, w) == (code \div (2 ^ (w - 1))) % 2

ContainmentTables(nW) ==
  {[w \in 1..nW |-> {p \in 1..NumPoints : Bit(code[p], w) = 1}] :
     code \in {c \in [1..NumPoints -> 0..(2 ^ nW - 1)] :
                \A p \in 1..(NumPoints - 1) : c[p] <= c[p + 1]}}

\* A vertex array is kept as the number of its rows and the z interval the
\* rows span; __init__ stores the rows and their bounding box.
AnalyticalSurface(points, surface_id) ==
  [id |-> surface_id, points |-> 1..points.rows, bounds |-> points.z,
   interior_points |-> None]

RevitWall(wall_id, bounds) ==
  [id |-> wall_id, buffered_mesh |-> [bounds |-> bounds]]

EmptyResults ==
  [empty_lists |-> [count |-> 0, keys |-> <<>>],
   lists_greater_than_3 |-> [count |-> 0, keys |-> <<>>],
   lists_between_2_and_3 |-> [count |-> 0, keys |-> <<>>],
   lists_with_1_item |-> [count |-> 0, keys |-> <<>>]]

Init ==
  \* one surface against several walls, or several surfaces against one wall
  /\ \E nS \in 1..MaxSurfaces, nW \in 1..MaxWalls :
       /\ nS = 1 \/ nW = 1
       /\ contains \in [1..nS -> ContainmentTables(nW)]
       /\ \E zs \in [1..nS -> ZIntervals] :
            surfaces = [i \in 1..nS |->
                          AnalyticalSurface([rows |-> NumCorners, z |-> zs[i]], i)]
       /\ \E zw \in [1..nW -> ZIntervals] :
            walls = [i \in 1..nW |-> RevitWall(i, zw[i])]
  /\ pc = "idle"
  /\ si = 0
  /\ candidate_walls = <<>>
  /\ wi = 0
  /\ all_points = {}
  /\ remaining_points = {}
  /\ matching_wall_ids = <<>>
  /\ queries = <<>>
  /\ matches = <<>>
  /\ returned = <<>>
  /\ d = <<>>
  /\ results = EmptyResults
  /\ elements = <<>>
  /\ units = "m"
  /\ application_ids = {}
  /\ attached = <<>>
  /\ marks = <<>>

----------------------------------------------------------------------------
\* spatial_proximity_filter

\* The test with the comparisons turned non-strict: a wall that only touches the
\* surface's interval is dropped.
KeepsOverlapping(surface, wall) ==
  ~(surface.bounds[2] <= wall.buffered_mesh.bounds[1]
      \/ surface.bounds[1] >= wall.buffered_mesh.bounds[2])

Keeps(surface, wall) ==
  LET surface_min_z == surface.bounds[1]
      surface_max_z == surface.bounds[2]
      wall_min_z == wall.buffered_mesh.bounds[1]
      wall_max_z == wall.buffered_mesh.bounds[2]
  IN  ~(surface_max_z < wall_min_z \/ surface_min_z > wall_max_z)

RECURSIVE FilterFrom(_, _, _, _)
FilterFrom(surface, ws, i, filtered_walls) ==
  IF i > Len(ws) THEN filtered_walls
  ELSE FilterFrom(surface, ws, i + 1,
                  IF Keeps(surface, ws[i]) THEN Append(filtered_walls, ws[i])
                  ELSE filtered_walls)

\* The pre-filter left out: every wall is a candidate.
KeepAllWalls(surface, ws) == ws

spatial_proximity_filter(surface, ws) == FilterFrom(surface, ws, 1, <<>>)

----------------------------------------------------------------------------
\* is_surface_coordinated

\* surface.generate_interior_points(): the sample points are computed on the
\* first call and kept on the surface.
generate_interior_points(surface) ==
  IF surface.interior_points.set THEN surface
  ELSE [surface EXCEPT !.interior_points = [set |-> TRUE, rows |-> InteriorRows]]

\* ndarray.size of an (n, 3) array and ndarray.shape[0]
Size(rows) == Cardinality(rows) * Dim

Shape0(rows) == Cardinality(rows)

\* wall.buffered_mesh.contains(points), as the set of rows answered True
PointsContained(s, wall, points) == points \cap contains[s][wall.id]

Put(m, key, value) ==
  [k \in (DOMAIN m) \cup {key} |-> IF k = key THEN value ELSE m[k]]

\* find_matching_partners is called
Call ==
  /\ pc = "idle"
  /\ Len(returned) < MaxRuns
  /\ matches' = <<>>
  /\ si' = 1
  /\ pc' = "begin"
  /\ UNCHANGED <<surfaces, walls, contains, candidate_walls, wi, all_points,
                 remaining_points, matching_wall_ids, queries, returned, d, results,
                 context>>

\* The loop body of find_matching_partners up to the candidate loop: step 1
\* (the pre-filter) and the first lines of is_surface_coordinated
Begin ==
  /\ pc = "begin"
  /\ candidate_walls' = spatial_proximity_filter(surfaces[si], walls)
  /\ matching_wall_ids' = <<>>
  /\ surfaces' = [surfaces EXCEPT ![si] = generate_interior_points(@)]
  /\ all_points' = surfaces'[si].points \cup surfaces'[si].interior_points.rows
  /\ wi' = 1
  /\ queries' = <<>>
  /\ pc' = IF candidate_walls' = <<>> THEN "store" ELSE "loop"
  /\ UNCHANGED <<walls, contains, si, remaining_points, matches, returned, d, results,
                 context>>

\* The comparison in like units but not strict: it holds for every wall.
CreditsAlways(remaining, points) == Size(remaining) <= Size(points)

\* The comparison the wrong way round.
CreditsInverted(remaining, points) == Size(remaining) > Shape0(points)

\* "remaining_points.size < all_points.shape[0]"
Credits(remaining, points) == Size(remaining) < Shape0(points)

\* The for statement without its breaks: it always goes on to the next wall.
MoveOnRegardless(break) ==
  IF wi = Len(candidate_walls)
  THEN pc' = "store" /\ UNCHANGED wi
  ELSE pc' = "loop" /\ wi' = wi + 1

\* How an iteration ends: "break" leaves the loop, otherwise the for
\* statement takes the next wall, or ends after the last one.
MoveOn(break) ==
  IF break \/ wi = Len(candidate_walls)
  THEN pc' = "store" /\ UNCHANGED wi
  ELSE pc' = "loop" /\ wi' = wi + 1

\* One iteration of "for wall in candidate_walls"
LoopStep ==
  /\ pc = "loop"
  /\ LET wall == candidate_walls[wi]
         points_contained == PointsContained(si, wall, all_points)
         remaining == all_points \ points_contained
     IN  /\ queries' = Append(queries, [wall |-> wall.id, points |-> all_points])
         /\ IF points_contained = all_points
            THEN /\ matching_wall_ids' = Append(matching_wall_ids, wall.id)
                 /\ MoveOn(TRUE)
                 /\ UNCHANGED remaining_points
            ELSE /\ remaining_points' = remaining
                 /\ IF Size(remaining) = 0
                    THEN /\ matching_wall_ids' = Append(matching_wall_ids, wall.id)
                         /\ MoveOn(TRUE)
                    ELSE /\ matching_wall_ids' =
                              IF Credits(remaining, all_points)
                              THEN Append(matching_wall_ids, wall.id)
                              ELSE matching_wall_ids
                         /\ MoveOn(FALSE)
  /\ UNCHANGED <<walls, contains, si, candidate_walls, all_points, matches,
                 returned, d, results, context>>

\* The loop consuming the points on the surface itself.
CheckWallConsuming ==
  /\ LoopStep
  /\ surfaces' = [surfaces EXCEPT ![si].points =
                     @ \ PointsContained(si, candidate_walls[wi], all_points)]

\* The loop leaves the surface as it is.
CheckWall == LoopStep /\ UNCHANGED surfaces

\* Step 3 of the loop body, the next surface, and the return
Store ==
  /\ pc = "store"
  /\ matches' = IF matching_wall_ids # <<>>
                THEN Put(matches, surfaces[si].id, matching_wall_ids)
                ELSE matches
  /\ IF si < Len(surfaces)
     THEN /\ si' = si + 1
          /\ pc' = "begin"
          /\ UNCHANGED returned
     ELSE /\ returned' = Append(returned, matches')
          /\ pc' = "idle"
          /\ UNCHANGED si
  /\ UNCHANGED <<surfaces, walls, contains, candidate_walls, wi, all_points,
                 remaining_points, matching_wall_ids, queries, d, results, context>>

Next == Call \/ Begin \/ CheckWall \/ Store

Spec == Init /\ [][Next]_vars

----------------------------------------------------------------------------
\* analyze_dict

\* The chain with "more than 3" off by one.
BucketFromThree(value) ==
  IF Len(value) = 0 THEN "empty_lists"
  ELSE IF Len(value) >= 3 THEN "lists_greater_than_3"
  ELSE IF 2 <= Len(value) /\ Len(value) <= 3 THEN "lists_between_2_and_3"
  ELSE IF Len(value) = 1 THEN "lists_with_1_item"
  ELSE "none"

\* The branch of the if/elif chain a value takes.
Bucket(value) ==
  IF Len(value) = 0 THEN "empty_lists"
  ELSE IF Len(value) > 3 THEN "lists_greater_than_3"
  ELSE IF 2 <= Len(value) /\ Len(value) <= 3 THEN "lists_between_2_and_3"
  ELSE IF Len(value) = 1 THEN "lists_with_1_item"
  ELSE "none"

Count(acc, bucket, key) ==
  IF bucket = "none" THEN acc
  ELSE [acc EXCEPT ![bucket] = [count |-> @.count + 1, keys |-> Append(@.keys, key)]]

\* d.items(): the keys in insertion order, which for the dict of
\* find_matching_partners is the order of the surfaces.
RECURSIVE Items(_)
Items(keys) ==
  IF keys = {} THEN <<>>
  ELSE LET k == CHOOSE x \in keys : \A y \in keys : x <= y
       IN  <<k>> \o Items(keys \ {k})

RECURSIVE AnalyzeItems(_, _, _)
AnalyzeItems(dict, items, acc) ==
  IF items = <<>> THEN acc
  ELSE AnalyzeItems(dict, Tail(items),
                    Count(acc, Bucket(dict[Head(items)]), Head(items)))

analyze_dict(dict) == AnalyzeItems(dict, Items(DOMAIN dict), EmptyResults)

\* Bounds of the dictionaries analyze_dict is applied to.
MaxKeys == 4
MaxListLen == 4

\* A list of n wall ids.
ListOfLen(n) == [i \in 1..n |-> i]

InitAnalyze ==
  /\ \E keys \in SUBSET (1..MaxKeys) :
       d \in [keys -> {ListOfLen(n) : n \in 0..MaxListLen}]
  /\ pc = "analyze"
  /\ results = EmptyResults
  /\ surfaces = <<>>
  /\ walls = <<>>
  /\ contains = <<>>
  /\ si = 0
  /\ candidate_walls = <<>>
  /\ wi = 0
  /\ all_points = {}
  /\ remaining_points = {}
  /\ matching_wall_ids = <<>>
  /\ queries = <<>>
  /\ matches = <<>>
  /\ returned = <<>>
  /\ elements = <<>>
  /\ units = "m"
  /\ application_ids = {}
  /\ attached = <<>>
  /\ marks = <<>>

AnalyzeDict ==
  /\ pc = "analyze"
  /\ results' = analyze_dict(d)
  /\ pc' = "analyzed"
  /\ UNCHANGED <<d, surfaces, walls, contains, si, candidate_walls, wi, all_points,
                 remaining_points, matching_wall_ids, queries, matches, returned,
                 context>>

NextAnalyze == AnalyzeDict

SpecAnalyze == InitAnalyze /\ [][NextAnalyze]_vars

----------------------------------------------------------------------------
\* EtabsModelProcessor.extract_analytical_surfaces

\* Bounds of the ETABS models the extraction is applied to.
MaxElements == 2
MaxVertices == 5

ModelUnits == {"mm", "cm", "m", "ft"}

SpeckleTypes == {"Objects.Structural.Geometry.Element2D",
                 "Objects.Structural.Geometry.Element1D"}

\* The z extents of a vertex array: upright over one storey, or flat.
VertexZ == ZIntervals \cup {<<k, k>> : k \in 0..MaxStorey}

\* displayValue[0].vertices after reshape(-1, 3)
VertexArrays == [rows : 1..MaxVertices, z : VertexZ]

\* A length in metres is kept as a whole number of thousandths, which makes
\* the divisions of convert_units exact.
Metres(value) == value * 1000

convert_units(value, units_) ==
  IF units_ = "mm" THEN Metres(value) \div 1000
  ELSE IF units_ = "cm" THEN Metres(value) \div 100
  ELSE IF units_ = "m" THEN Metres(value)
  ELSE -1  \* ValueError; create_analytical_surface never gets here

\* np.ptp(z_coords) < tolerance; the z values of the model are whole numbers
_is_floor(vertices) == vertices.z[2] - vertices.z[1] = 0

\* None stands for Python's None, as for interior_points.
create_analytical_surface(surface) ==
  LET vertices_array == surface.vertices
      scaled_vertices_array ==
        IF units \in {"mm", "cm"}
        THEN [vertices_array EXCEPT
                !.z = <<convert_units(@[1], units), convert_units(@[2], units)>>]
        ELSE [vertices_array EXCEPT !.z = <<Metres(@[1]), Metres(@[2])>>]
  IN  IF _is_floor(vertices_array) THEN None
      ELSE AnalyticalSurface(scaled_vertices_array, surface.id)

InitExtract ==
  /\ \E n \in 1..MaxElements :
       \E ts \in [1..n -> SpeckleTypes], as \in [1..n -> 1..MaxElements],
          vs \in [1..n -> VertexArrays] :
         elements = [i \in 1..n |-> [id |-> i, speckle_type |-> ts[i],
                                     applicationId |-> as[i], vertices |-> vs[i]]]
  /\ units \in ModelUnits
  /\ application_ids = {}
  /\ surfaces = <<>>
  /\ pc = "extract"
  /\ si = 1
  /\ walls = <<>>
  /\ contains = <<>>
  /\ candidate_walls = <<>>
  /\ wi = 0
  /\ all_points = {}
  /\ remaining_points = {}
  /\ matching_wall_ids = <<>>
  /\ queries = <<>>
  /\ matches = <<>>
  /\ returned = <<>>
  /\ d = <<>>
  /\ results = EmptyResults
  /\ attached = <<>>
  /\ marks = <<>>

\* One element of the list comprehension; si is its position in elements.
ExtractElement ==
  /\ pc = "extract"
  /\ LET element == elements[si]
         fresh == /\ element.speckle_type = "Objects.Structural.Geometry.Element2D"
                  /\ element.applicationId \notin application_ids
         surface == create_analytical_surface(element)
     IN  /\ application_ids' = IF fresh THEN application_ids \cup {element.applicationId}
                               ELSE application_ids
         /\ surfaces' = IF fresh /\ surface # None THEN Append(surfaces, surface)
                        ELSE surfaces
  /\ si' = si + 1
  /\ pc' = IF si = Len(elements) THEN "extracted" ELSE "extract"
  /\ UNCHANGED <<elements, units, walls, contains, candidate_walls, wi, all_points,
                 remaining_points, matching_wall_ids, queries, matches, returned,
                 d, results, attached, marks>>

NextExtract == ExtractElement

SpecExtract == InitExtract /\ [][NextExtract]_vars

----------------------------------------------------------------------------
\* automate_function, from the call of the matcher on.  The surfaces and the
\* walls of Init are what the two processors delivered.

\* "matches = SurfaceWallMatcher.find_matching_partners(...)".  The call
\* passes function_inputs.grid_max_distance as a third argument, for which
\* the signature of find_matching_partners has no parameter; the model
\* follows the call into the body with the first two.
MainCall ==
  /\ returned = <<>>
  /\ Call

\* "results = analyze_dict(matches)"
Analyze ==
  /\ pc = "idle"
  /\ returned # <<>>
  /\ d' = returned[Len(returned)]
  /\ results' = analyze_dict(d')
  /\ pc' = "verdict"
  /\ UNCHANGED <<surfaces, walls, contains, si, candidate_walls, wi, all_points,
                 remaining_points, matching_wall_ids, queries, matches, returned,
                 context>>

\* The three attachments both branches make.
Attachments ==
  << [level |-> "warning", category |-> "Multi-Wall Matches - Complex",
      object_ids |-> results["lists_greater_than_3"].keys],
     [level |-> "info", category |-> "Easy Matches",
      object_ids |-> results["lists_with_1_item"].keys],
     [level |-> "info", category |-> "Easy Matches",
      object_ids |-> results["lists_between_2_and_3"].keys] >>

\* The numbers the message of either mark shows; total is len(matches).
Message(call) ==
  [call |-> call,
   no_matches |-> results["empty_lists"].count,
   easy |-> results["lists_with_1_item"].count,
   multi_easy |-> results["lists_between_2_and_3"].count,
   multi_hard |-> results["lists_greater_than_3"].count,
   total |-> Cardinality(DOMAIN d)]

\* The if/else on results['empty_lists']['count']
Verdict ==
  /\ pc = "verdict"
  /\ IF results["empty_lists"].count > 0
     THEN /\ attached' = attached \o
                 << [level |-> "error", category |-> "Uncoordinated Elements",
                     object_ids |-> results["empty_lists"].keys] >> \o Attachments
          /\ marks' = Append(marks, Message("mark_run_failed"))
     ELSE /\ attached' = attached \o Attachments
          /\ marks' = Append(marks, Message("mark_run_success"))
  /\ pc' = "done"
  /\ UNCHANGED <<surfaces, walls, contains, si, candidate_walls, wi, all_points,
                 remaining_points, matching_wall_ids, queries, matches, returned,
                 d, results, elements, units, application_ids>>

NextRun == MainCall \/ Begin \/ CheckWall \/ Store \/ Analyze \/ Verdict

SpecRun == Init /\ [][NextRun]_vars

----------------------------------------------------------------------------
\* Properties.  At pc = "store" is_surface_coordinated has returned
\* matching_wall_ids for surface si, the candidates being candidate_walls.

\* The rows of the current surface the buffered mesh of wall w contains.
Inside(w) == contains[si][w] \cap all_points

CandidateIds == {candidate_walls[j].id : j \in DOMAIN candidate_walls}

\* The candidates, by position, that contain every sample point.
Enclosing == {j \in DOMAIN candidate_walls : Inside(candidate_walls[j].id) = all_points}

WallById(w) == CHOOSE wall \in {walls[i] : i \in DOMAIN walls} : wall.id = w

SurfaceById(s) == CHOOSE surface \in {surfaces[i] : i \in DOMAIN surfaces} : surface.id = s

ZDisjoint(surface, wall) ==
  \/ surface.bounds[2] < wall.buffered_mesh.bounds[1]
  \/ surface.bounds[1] > wall.buffered_mesh.bounds[2]

\* C1: a surface with a sample point that no candidate wall contains gets an
\* empty match list, whatever the earlier candidates contained.
AllOrNothing ==
  (pc = "store" /\ \E p \in all_points : \A w \in CandidateIds : p \notin Inside(w))
    => matching_wall_ids = <<>>

\* C2: when the sample points are split between exactly two candidate walls,
\* without overlap and without gap, the match list is those two walls in the
\* order of the input list.
TwoWallSplit ==
  pc = "store" =>
    \A a, b \in DOMAIN candidate_walls :
      LET wa == candidate_walls[a].id
          wb == candidate_walls[b].id
      IN  ( /\ a < b
            /\ Inside(wa) # {}
            /\ Inside(wb) # {}
            /\ Inside(wa) \cap Inside(wb) = {}
            /\ Inside(wa) \cup Inside(wb) = all_points
            /\ \A w \in CandidateIds \ {wa, wb} : Inside(w) = {} )
          => matching_wall_ids = <<wa, wb>>

\* C3, as claimed: when some candidate wall contains all the sample points,
\* the match list has exactly one element, a wall that contains them all.
SingleEnclosingWall ==
  (pc = "store" /\ Enclosing # {})
    => /\ Len(matching_wall_ids) = 1
       /\ Inside(matching_wall_ids[1]) = all_points

\* C3, amended: when some candidate wall contains all the sample points, the
\* match list ends with the first such candidate, no element before it
\* contains all the points, and the list has exactly one element when no
\* candidate before that wall contains any sample point.
EnclosingWallIsLast ==
  (pc = "store" /\ Enclosing # {})
    => LET k == CHOOSE j \in Enclosing : \A i \in Enclosing : j <= i
           n == Len(matching_wall_ids)
       IN  /\ n >= 1
           /\ matching_wall_ids[n] = candidate_walls[k].id
           /\ \A j \in 1..(n - 1) : Inside(matching_wall_ids[j]) # all_points
           /\ (\A j \in 1..(k - 1) : Inside(candidate_walls[j].id) = {}) => n = 1

\* C3: the second candidate contains all the sample points and ends a match
\* list that starts with the first candidate.
EnclosingWallCreditedLast ==
  /\ pc = "store"
  /\ Enclosing = {2}
  /\ matching_wall_ids = <<candidate_walls[1].id, candidate_walls[2].id>>

\* C4: the returned mapping has an entry for every input surface, the
\* unmatched ones with an empty list.
UnmatchedIsData ==
  \A r \in DOMAIN returned :
    DOMAIN returned[r] = {surfaces[i].id : i \in DOMAIN surfaces}

\* C5: every wall of a match list contains a sample point that none of the
\* walls credited before it contains.
EarliestWinsCredit ==
  pc = "store" =>
    \A j \in DOMAIN matching_wall_ids :
      \E p \in Inside(matching_wall_ids[j]) :
        \A i \in 1..(j - 1) : p \notin Inside(matching_wall_ids[i])

\* C6: a non-empty match list covers the surface: every sample point is in
\* the buffered mesh of some wall of the list.
SuccessMeansFullCoverage ==
  (pc = "store" /\ matching_wall_ids # <<>>)
    => \A p \in all_points :
         \E j \in DOMAIN matching_wall_ids : p \in Inside(matching_wall_ids[j])

\* C7: a wall whose z interval is disjoint from the surface's never appears
\* in the surface's match list.
PreFilterSoundness ==
  /\ \A r \in DOMAIN returned : \A s \in DOMAIN returned[r] :
       \A j \in DOMAIN returned[r][s] :
         ~ZDisjoint(SurfaceById(s), WallById(returned[r][s][j]))
  /\ \A s \in DOMAIN matches : \A j \in DOMAIN matches[s] :
       ~ZDisjoint(SurfaceById(s), WallById(matches[s][j]))

\* C7: a call has returned, and a wall the mesh test would accept for every
\* point of a surface was kept out of its list by the pre-filter.
DisjointWallKeptOut ==
  /\ returned # <<>>
  /\ \E i \in DOMAIN surfaces, k \in DOMAIN walls :
       /\ ZDisjoint(surfaces[i], walls[k])
       /\ contains[i][walls[k].id] = 1..NumPoints
       /\ surfaces[i].id \notin DOMAIN returned[1]

\* The candidate list claim C8 describes, for surface si.
CandidatesAsClaimed(cw) ==
  /\ \A j \in DOMAIN cw : \E i \in DOMAIN walls : cw[j] = walls[i]
  /\ \A j, k \in DOMAIN cw : j < k => cw[j].id < cw[k].id
  /\ {cw[j].id : j \in DOMAIN cw}
       = {walls[i].id : i \in {x \in DOMAIN walls : ~ZDisjoint(surfaces[si], walls[x])}}

\* C8: the pre-filter returns exactly the walls whose z interval meets the
\* surface's (touching intervals included), in input order and without
\* duplicates, and leaves the input list as it was.
PreFilterResult ==
  [][pc = "begin" => (walls' = walls /\ CandidatesAsClaimed(candidate_walls'))]_vars

\* C8: the pre-filter kept a wall that touches the surface's interval at an
\* endpoint and dropped another wall.
TouchingWallKept ==
  /\ pc \in {"loop", "store"}
  /\ Len(candidate_walls) < Len(walls)
  /\ \E j \in DOMAIN candidate_walls :
       \/ candidate_walls[j].buffered_mesh.bounds[1] = surfaces[si].bounds[2]
       \/ candidate_walls[j].buffered_mesh.bounds[2] = surfaces[si].bounds[1]

\* The keys of a bucket, as a set.
KeysOf(bucket) == {bucket.keys[i] : i \in DOMAIN bucket.keys}

Classified(dict, res) ==
  /\ KeysOf(res.empty_lists) = {k \in DOMAIN dict : Len(dict[k]) = 0}
  /\ KeysOf(res.lists_with_1_item) = {k \in DOMAIN dict : Len(dict[k]) = 1}
  /\ KeysOf(res.lists_between_2_and_3) = {k \in DOMAIN dict : Len(dict[k]) \in {2, 3}}
  /\ KeysOf(res.lists_greater_than_3) = {k \in DOMAIN dict : Len(dict[k]) > 3}
  /\ \A name \in DOMAIN res :
       /\ res[name].count = Cardinality(KeysOf(res[name]))
       /\ res[name].count = Len(res[name].keys)
  /\ res.empty_lists.count + res.lists_with_1_item.count
       + res.lists_between_2_and_3.count + res.lists_greater_than_3.count
       = Cardinality(DOMAIN dict)

\* C9: analyze_dict puts every key in the one bucket its list length selects
\* (0, 1, 2 or 3, more than 3), each count is the number of keys of its
\* bucket, the counts add up to the number of keys, and the mapping is left
\* as it was.
Classification ==
  [][pc = "analyze" => (d' = d /\ Classified(d', results'))]_vars

\* C9: a mapping with one key in each of the four buckets has been analyzed.
EveryBucketUsed ==
  /\ pc = "analyzed"
  /\ \A name \in DOMAIN results : results[name].count = 1

MalformedRejected ==
  \A i \in DOMAIN surfaces : Cardinality(surfaces[i].points) = NumCorners

\* A call of buffered_mesh.contains, by position in queries, that answered
\* True for every point it was given.
TerminalQuery(q) ==
  contains[si][queries[q].wall] \cap queries[q].points = queries[q].points

\* C12: a candidate that contains every point it is queried with is appended
\* and ends the loop at once; its query is the last one made, and its id is the
\* last element of the list stored for the surface.
TerminalSuccessStops ==
  [][/\ (pc = "loop" /\ Inside(candidate_walls[wi].id) = all_points)
          => /\ matching_wall_ids' = Append(matching_wall_ids, candidate_walls[wi].id)
             /\ queries'[Len(queries')].wall = candidate_walls[wi].id
             /\ pc' = "store"
     /\ (pc = "store" /\ pc' # "store")
          => \A q \in DOMAIN queries :
               TerminalQuery(q)
                 => /\ q = Len(queries)
                    /\ surfaces[si].id \in DOMAIN matches'
                    /\ LET stored == matches'[surfaces[si].id]
                       IN  stored[Len(stored)] = queries[q].wall]_vars

\* A wall enclosed the surface and a later candidate was never queried.
LaterCandidateSkipped ==
  /\ pc = "store"
  /\ queries # <<>>
  /\ TerminalQuery(Len(queries))
  /\ Len(queries) < Len(candidate_walls)
  /\ matching_wall_ids[Len(matching_wall_ids)] = candidate_walls[Len(queries)].id

\* C13: every candidate that contains some but not all of the points it is
\* queried with is credited, and the next candidate is queried with exactly
\* the points that candidate left over.
PartialCreditAndConsumption ==
  pc \in {"loop", "store"} =>
    \A q \in DOMAIN queries :
      LET inside == contains[si][queries[q].wall] \cap queries[q].points
      IN  (inside # {} /\ inside # queries[q].points)
            => /\ \E j \in DOMAIN matching_wall_ids :
                    matching_wall_ids[j] = queries[q].wall
               /\ (q + 1) \in DOMAIN queries
                    => queries[q + 1].points = queries[q].points \ inside

\* The sample points of the surface with id s, once generated.
SamplePoints(s) == SurfaceById(s).points \cup SurfaceById(s).interior_points.rows

\* C14: a candidate that contains none of the points it is queried with is
\* not credited, leaves every one of those points remaining, and the loop goes
\* on to the next candidate (or ends after the last one); every wall id in a
\* returned match list is that of a wall containing at least one sample point
\* of the surface.
NoCreditWithoutContainment ==
  [][/\ (pc = "loop" /\ Inside(candidate_walls[wi].id) = {})
          => /\ matching_wall_ids' = matching_wall_ids
             /\ all_points' = all_points
             /\ remaining_points' = all_points
             /\ IF wi < Len(candidate_walls)
                THEN pc' = "loop" /\ wi' = wi + 1
                ELSE pc' = "store"
     /\ \A r \in DOMAIN returned' :
          \A s \in DOMAIN returned'[r] :
            \A j \in DOMAIN returned'[r][s] :
              contains[s][returned'[r][s][j]] \cap SamplePoints(s)' # {}]_vars

\* A wall containing no sample point was passed over, the next candidate then
\* enclosed the surface, and the list was returned.
EmptyWallPassedOver ==
  /\ pc = "idle"
  /\ returned # <<>>
  /\ Len(candidate_walls) = 2
  /\ Len(queries) = 2
  /\ Inside(candidate_walls[1].id) = {}
  /\ remaining_points = all_points
  /\ matching_wall_ids = <<candidate_walls[2].id>>
  /\ returned[Len(returned)][surfaces[si].id] = matching_wall_ids

\* The ids of the surfaces passed to the matcher for which it found no wall.
Unmatched ==
  {surfaces[i].id : i \in {k \in DOMAIN surfaces :
      \/ surfaces[k].id \notin DOMAIN returned[1]
      \/ returned[1][surfaces[k].id] = <<>>}}

\* C15: a run calls exactly one of mark_run_failed and mark_run_success; it
\* is marked failed, with the "Uncoordinated Elements" error attached to
\* exactly the unmatched surfaces, if and only if some surface has no matching
\* wall, and the totals of the message count all surfaces passed to the
\* matcher.
RunVerdictFollowsUnmatched ==
  /\ pc # "done" => marks = <<>>
  /\ pc = "done" =>
       /\ Len(marks) = 1
       /\ marks[1].call = "mark_run_failed" <=> Unmatched # {}
       /\ marks[1].call = "mark_run_failed" =>
            \E a \in DOMAIN attached :
              /\ attached[a].level = "error"
              /\ attached[a].category = "Uncoordinated Elements"
              /\ {attached[a].object_ids[k] : k \in DOMAIN attached[a].object_ids}
                   = Unmatched
       /\ marks[1].total = Len(surfaces)

====
